---- MODULE Spec2Model ----
(***************************************************************************)
(* GitSleuth frontend: the App component's state (src/frontend/src/App.js),*)
(* the usePolling hook, the RepositoryInput and QueryInterface submit      *)
(* handlers, and the HTTP requests they have in flight.  The backend is    *)
(* not part of the sources; it is modelled from the specification's        *)
(* Session Manager / Ingestion Pipeline sections (4.2, 4.3, 4.6).          *)
(* Display-only state is left out: the snackbar, the menu anchor, and the  *)
(* text fields and validation message local to the two forms (the text a   *)
(* form submits is the input of its submit action).                        *)
(***************************************************************************)
EXTENDS Integers, Sequences, FiniteSets, Bags, TLC

\* ------------------------------------------------------------------ bounds
MaxSessions == 1        \* sessions the backend creates; index requests in flight
MaxStatusInFlight == 1  \* status requests outstanding at once
MaxQueries == 1         \* questions submitted over a run
RepoFiles == 1          \* files of an indexed repository
MaxTotalFiles == 13     \* largest total_files the progress bar is computed for
MaxIntervals == 5       \* intervals a parent can pass to usePolling
MaxCallbacks == 9       \* onPoll callbacks a parent can pass to usePolling

\* --------------------------------------------------------------- constants
\* types.js SessionStatus
IDLE == "idle"
INDEXING == "indexing"
READY == "ready"
ERROR == "error"

\* JavaScript null (session ids, timer handles and messages are strings)
Null == "null"
\* JavaScript undefined, for a missing object (StatusResponse.progress?)
Undefined == [undefined |-> TRUE]
\* the response slot of a request the backend has not answered yet
NoResp == [pending |-> TRUE]

\* usePolling's interval as App passes it (App.js 115)
PollInterval == 2000

\* {} : the object without fields
EmptyObject == [f \in {} |-> 0]

\* the order of the ingestion steps (spec section 3, Progress)
StepRank(step) ==
    CASE step = "scanning_files" -> 1
      [] step = "processing_files" -> 2
      [] step = "generating_embeddings" -> 3
      [] step = "storing_vectors" -> 4
      [] step = "complete" -> 5

\* ------------------------------------------------------------------- state
VARIABLES
    state,        \* App: const [state, setState] = useState(createInitialState())
    intervalRef,  \* usePolling: intervalRef.current (a timer handle or Null)
    timers,       \* live setInterval timers: [handle, sid]; sid is the session id
                  \* captured by the checkStatus closure the timer calls
    indexReqs,    \* POST /index requests in flight (a bag)
    statusReqs,   \* GET /status/{id} requests in flight (a bag)
    queryReqs,    \* POST /query requests in flight (a bag)
    server,       \* backend session registry: session id -> session, for the
                  \* sessions a request of the client can still reach
    created,      \* number of sessions the backend has created
    submitted,    \* number of questions submitted so far
    panel,        \* the IndexingStatus element on screen: its status prop and
                  \* the value of its progress bar, or NoPanel
    deps,         \* usePolling: the dependencies [enabled, interval, onPoll] of
                  \* the effect's last run (onPoll is named by the session id
                  \* its closure holds), or Unmounted
    deleteReqs    \* DELETE /session/{id} requests in flight (a bag)

vars == <<state, intervalRef, timers, indexReqs, statusReqs, queryReqs,
          server, created, submitted, panel, deps, deleteReqs>>

One(r) == SetToBag({r})

\* ------------------------------------------------------------- types.js
createInitialState ==
    [session |-> [id |-> Null, status |-> IDLE, repoUrl |-> <<>>,
                  progress |-> EmptyObject],
     queries |-> [history |-> <<>>, currentQuery |-> <<>>, isLoading |-> FALSE],
     ui |-> [showRepositoryInput |-> TRUE, showQueryInterface |-> FALSE,
             error |-> Null]]

\* id and timestamp, two readings of the wall clock that no handler reads,
\* are left out of the record
createQueryHistory(question, answer, sources, confidence) ==
    [question |-> question, answer |-> answer, sources |-> sources,
     confidence |-> confidence]


\* ------------------------------------------------- user input (small sets)
\* Text is a sequence of one-character strings.
Https == <<"h","t","t","p","s",":","/","/">>
Host == <<"g","i","t","h","u","b",".","c","o","m">>
GoodUrl == Https \o Host \o <<"/","a","/","b">>
RepoUrls ==
    { <<>>,                                   \* empty
      <<" ">>,                                \* whitespace only
      <<"h","t","t","p",":","/","/">> \o Host \o <<"/","a","/","b">>,  \* http
      Https \o Host \o <<"/","a">>,           \* no repository segment
      GoodUrl \o <<"/">>,                     \* trailing slash
      <<" ">> \o GoodUrl,                     \* leading blank
      GoodUrl }

\* String.prototype.trim
IsSpace(c) == c \in {" ", "\t", "\n"}
RECURSIVE TrimLeft(_)
TrimLeft(s) == IF s # <<>> /\ IsSpace(Head(s)) THEN TrimLeft(Tail(s)) ELSE s
RECURSIVE TrimRight(_)
TrimRight(s) ==
    IF s # <<>> /\ IsSpace(s[Len(s)]) THEN TrimRight(SubSeq(s, 1, Len(s) - 1)) ELSE s
Trim(s) == TrimRight(TrimLeft(s))

\* [a-zA-Z0-9_.-] restricted to the characters the inputs use
NameChars == {"a", "b", "g", "i", "t", "h", "u", "c", "o", "m", "p", "s",
              "0", "1", "_", ".", "-"}
IsName(s) == s # <<>> /\ \A k \in 1..Len(s) : s[k] \in NameChars

\* a variant that tests only the start of the URL
validateUrlPrefixOnly(url) ==
    LET prefix == Https \o Host \o <<"/">>
        n == Len(prefix)
    IN  /\ Len(url) > n
        /\ SubSeq(url, 1, n) = prefix

\* RepositoryInput.validateUrl:
\*   /^https:\/\/github\.com\/[a-zA-Z0-9_.-]+\/[a-zA-Z0-9_.-]+$/.test(url)
validateUrl(url) ==
    LET prefix == Https \o Host \o <<"/">>
        n == Len(prefix)
    IN  /\ Len(url) > n
        /\ SubSeq(url, 1, n) = prefix
        /\ LET rest == SubSeq(url, n + 1, Len(url))
           IN  \E k \in 1..Len(rest) :
                  /\ rest[k] = "/"
                  /\ IsName(SubSeq(rest, 1, k - 1))
                  /\ IsName(SubSeq(rest, k + 1, Len(rest)))

\* the failure messages a request can end with
\* (error.response?.data?.detail || error.message || default)
IndexErrors == {"Network Error"}
QueryErrors == {"NotReady", "UpstreamFailure"}

\* ------------------------------------------- App.js: the setState updaters
\* handleIndexRepository, lines 46-50
IndexStarted(prev) ==
    [prev EXCEPT !.ui.error = Null, !.queries.isLoading = TRUE]

\* handleIndexRepository, lines 54-68
IndexSucceeded(prev, response, repoUrl) ==
    [prev EXCEPT !.session = [id |-> response.session_id,
                              status |-> response.status,
                              repoUrl |-> repoUrl,
                              progress |-> EmptyObject],
                 !.ui.showRepositoryInput = FALSE,
                 !.ui.showQueryInterface = FALSE,
                 !.queries.isLoading = FALSE]

\* a variant that also marks the session as failed
IndexFailedMarkingSession(prev, errorMessage) ==
    [prev EXCEPT !.session.status = ERROR,
                 !.ui.error = errorMessage, !.queries.isLoading = FALSE]

\* handleIndexRepository, lines 73-77
IndexFailed(prev, errorMessage) ==
    [prev EXCEPT !.ui.error = errorMessage, !.queries.isLoading = FALSE]

\* a variant that updates the fields it shows instead of replacing the record
StatusReceivedMerging(prev, status) ==
    [prev EXCEPT !.session.status = status.status,
                 !.session.progress =
                     IF status.progress = Undefined THEN EmptyObject
                     ELSE IF prev.session.progress = EmptyObject THEN status.progress
                     ELSE [prev.session.progress EXCEPT
                              !.step = status.progress.step,
                              !.processed_files = status.progress.processed_files,
                              !.processed_chunks = status.progress.processed_chunks],
                 !.ui.showQueryInterface = (status.status = READY)]

\* checkStatus, lines 89-100; status.progress || {}
StatusReceived(prev, status) ==
    [prev EXCEPT !.session.status = status.status,
                 !.session.progress =
                     IF status.progress = Undefined THEN EmptyObject ELSE status.progress,
                 !.ui.showQueryInterface = (status.status = READY)]

\* handleQuery, lines 124-128
QueryStarted(prev) ==
    [prev EXCEPT !.queries.isLoading = TRUE, !.ui.error = Null]

\* handleQuery, lines 139-146
QuerySucceeded(prev, newQuery) ==
    [prev EXCEPT !.queries.history = <<newQuery>> \o prev.queries.history,
                 !.queries.isLoading = FALSE]

\* a variant that records the failure as an answer
QueryFailedRecording(prev, errorMessage) ==
    [prev EXCEPT !.queries.history =
                     <<createQueryHistory(<<>>, errorMessage, <<>>, "low")>>
                     \o prev.queries.history,
                 !.queries.isLoading = FALSE, !.ui.error = errorMessage]

\* a variant that leaves the loading flag as it is
QueryFailedKeepingLoading(prev, errorMessage) ==
    [prev EXCEPT !.ui.error = errorMessage]

\* handleQuery, lines 151-155
QueryFailed(prev, errorMessage) ==
    [prev EXCEPT !.queries.isLoading = FALSE, !.ui.error = errorMessage]

\* ------------------------------------------- IndexingStatus (the component)
\* a variant that drops the fraction
MathTrunc(n, d) == n \div d

\* Math.round of the quotient n / d of two integers, d > 0: the integer
\* nearest to it, a half going up.  The code rounds the double
\* (processed_files / total_files) * 100; the two differ only where the
\* exact value ends in .5 and the double falls just below it, first at 23
\* of 40 files (57.49999999999999), beyond the totals examined here.
MathRound(n, d) == (2 * n + d) \div (2 * d)

\* getProgressValue (IndexingStatus.js 22-29); a missing field takes its
\* default 0
getProgressValue(status) ==
    IF status.progress = Undefined THEN 0
    ELSE LET processed_files ==
                 IF "processed_files" \in DOMAIN status.progress
                 THEN status.progress.processed_files ELSE 0
             total_files ==
                 IF "total_files" \in DOMAIN status.progress
                 THEN status.progress.total_files ELSE 0
         IN  IF total_files = 0 THEN 0
             ELSE MathRound(processed_files * 100, total_files)

\* isError (IndexingStatus.js 65), which selects the title 'Indexing Failed'
\* and the error alert (72, 86-89)
isError(status) == status.status = ERROR

\* the element rendered for a status prop
IndexingStatus(status) == [status |-> status, value |-> getProgressValue(status)]

\* no IndexingStatus element on screen
NoPanel == [unmounted |-> TRUE]

\* ------------------------------------------------------ App.js: the render
\* the IndexingStatus element and its status prop (App.js 244-253)
IndexingStatus_propsOf(s) ==
    [status |-> s.session.status, message |-> "Indexing in progress...",
     progress |-> s.session.progress]
IndexingStatus_props == IndexingStatus_propsOf(state)
IndexingStatus_rendered == state.session.status = INDEXING

\* -------------------------------------------------- usePolling (the hook)
\* the handle setInterval returns: one that no live timer has
NewHandle(ts) ==
    LET live == {t.handle : t \in ts}
    IN  ToString(CHOOSE h \in 1..(Cardinality(live) + 1) : ToString(h) \notin live)

clearInterval(ts, h) == {t \in ts : t.handle # h}

\* a variant that clears nothing
EffectCleanupNone(ts, ref) == ts

\* the effect's cleanup, lines 22-26
EffectCleanup(ts, ref) == IF ref # Null THEN clearInterval(ts, ref) ELSE ts

\* a variant that starts a timer whether or not polling is enabled
EffectBodyAlwaysOn(ts, ref, enabled, sid) ==
    <<ts \cup {[handle |-> NewHandle(ts), sid |-> sid]}, NewHandle(ts)>>

\* the effect's body, lines 13-20, run with `enabled` and the onPoll closure
\* over session id `sid`; yields <<timers, intervalRef.current>>
EffectBody(ts, ref, enabled, sid) ==
    IF enabled
    THEN <<ts \cup {[handle |-> NewHandle(ts), sid |-> sid]}, NewHandle(ts)>>
    ELSE IF ref # Null THEN <<clearInterval(ts, ref), Null>> ELSE <<ts, ref>>

\* the hook instance is gone
Unmounted == [mounted |-> FALSE]

\* usePolling called by a render of its component (lines 9-28): the effect
\* runs again, cleanup first, when a dependency changed (line 27)
usePolling(enabled, interval, onPoll) ==
    LET next == [enabled |-> enabled, interval |-> interval, onPoll |-> onPoll]
        r == EffectBody(EffectCleanup(timers, intervalRef), intervalRef,
                        enabled, onPoll)
    IN  /\ deps' = next
        /\ IF next # deps
           THEN timers' = r[1] /\ intervalRef' = r[2]
           ELSE UNCHANGED <<timers, intervalRef>>

\* The render after setState(next): App passes enabled = (status = indexing),
\* interval 2000 and onPoll = checkStatus, a useCallback over
\* [state.session.id] (App.js 83-117).  The IndexingStatus element is
\* rendered in status indexing (App.js 244).
Render(next) ==
    /\ state' = next
    /\ panel' = IF next.session.status = INDEXING
                THEN IndexingStatus(IndexingStatus_propsOf(next))
                ELSE NoPanel
    /\ usePolling(next.session.status = INDEXING, PollInterval, next.session.id)

\* ------------------------------------------------ backend (from the spec)
\* Ingestion Pipeline, spec 4.2: the progress records a run reports.  A
\* repository yields one chunk per file; the chunks are embedded
\* in one batch; finishing the last file is reported with the next step.
Progress(step, pf, tf, pc, tc) ==
    [step |-> step, processed_files |-> pf, total_files |-> tf,
     processed_chunks |-> pc, total_chunks |-> tc]

\* the progress records that can follow p in one updateProgress call
Advance(p) ==
    IF p = Undefined THEN {Progress("scanning_files", 0, 0, 0, 0)}
    ELSE CASE p.step = "scanning_files" ->
                {Progress("processing_files", 0, RepoFiles, 0, 0)}
           [] p.step = "processing_files" ->
                {[p EXCEPT !.processed_files = @ + 1, !.total_chunks = @ + 1,
                           !.step = IF p.processed_files + 1 = p.total_files
                                    THEN "generating_embeddings" ELSE @]}
           [] p.step = "generating_embeddings" ->
                {[p EXCEPT !.processed_chunks = p.total_chunks,
                           !.step = "storing_vectors"]}
           [] p.step = "storing_vectors" -> {[p EXCEPT !.step = "complete"]}
           [] p.step = "complete" -> {}

\* The session ids a request of the client can still reach: the id the
\* client holds, the ids travelling in index responses, and the ids of
\* requests the backend has yet to answer.  A session nothing refers to
\* runs on unobserved; the registry variable leaves it out.
Referenced(st, idx, stat, qry) ==
    ({st.session.id} \ {Null})
    \cup {r.resp.session_id : r \in {x \in BagToSet(idx) : x.resp # NoResp}}
    \cup {r.sid : r \in {x \in BagToSet(stat) : x.resp = NoResp}}
    \cup {r.sid : r \in BagToSet(qry)}

Keep(srv, st, idx, stat, qry) ==
    [k \in DOMAIN srv \cap Referenced(st, idx, stat, qry) |-> srv[k]]

\* POST /index reaches the backend: Session Manager create(), spec 4.3; the
\* call returns at once with status indexing (spec 5)
ServerIndex(r, maxSessions) ==
    /\ r.resp = NoResp
    /\ created < maxSessions
    /\ created' = created + 1
    /\ LET id == ToString(created + 1)
       IN  /\ server' = server @@ (id :> [status |-> INDEXING, progress |-> Undefined])
           /\ indexReqs' = (indexReqs (-) One(r))
                           (+) One([r EXCEPT !.resp = [session_id |-> id,
                                                       status |-> INDEXING]])
    /\ UNCHANGED <<state, intervalRef, timers, statusReqs, queryReqs, submitted,
                   panel, deps, deleteReqs>>

\* POST /index answered with a status other than indexing: IndexResponse
\* declares status: SessionStatus (types/index.ts 6-10), and the handler
\* stores whatever arrives.  Here the run of the new session has already
\* completed when the response is written.
ServerIndexReady(r, maxSessions) ==
    /\ r.resp = NoResp
    /\ created < maxSessions
    /\ created' = created + 1
    /\ LET id == ToString(created + 1)
       IN  /\ server' = server @@
                 (id :> [status |-> READY,
                         progress |-> Progress("complete", RepoFiles, RepoFiles,
                                               RepoFiles, RepoFiles)])
           /\ indexReqs' = (indexReqs (-) One(r))
                           (+) One([r EXCEPT !.resp = [session_id |-> id,
                                                       status |-> READY]])
    /\ UNCHANGED <<state, intervalRef, timers, statusReqs, queryReqs, submitted,
                   panel, deps, deleteReqs>>

\* the pipeline run of session k reports its next progress; step complete
\* makes the session ready (spec 4.2, step 5)
ServerAdvance(k) ==
    /\ server[k].status = INDEXING
    /\ \E p \in Advance(server[k].progress) :
          server' = [server EXCEPT ![k] =
                        [status |-> IF p.step = "complete" THEN READY ELSE INDEXING,
                         progress |-> p]]
    /\ UNCHANGED <<state, intervalRef, timers, indexReqs, statusReqs, queryReqs,
                   created, submitted, panel, deps, deleteReqs>>

\* an unrecoverable failure of the run of session k (spec 4.2)
ServerFail(k) ==
    /\ server[k].status = INDEXING
    /\ server' = [server EXCEPT ![k].status = ERROR]
    /\ UNCHANGED <<state, intervalRef, timers, indexReqs, statusReqs, queryReqs,
                   created, submitted, panel, deps, deleteReqs>>

\* GET /status/{id} reaches the backend: Session Manager get(), spec 4.3
ServerStatus(r) ==
    /\ r.resp = NoResp
    /\ statusReqs' = (statusReqs (-) One(r))
                     (+) One([r EXCEPT !.resp =
                                 [status |-> server[r.sid].status,
                                  progress |-> server[r.sid].progress]])
    /\ server' = Keep(server, state, indexReqs, statusReqs', queryReqs)
    /\ UNCHANGED <<state, intervalRef, timers, indexReqs, queryReqs, created, submitted,
                   panel, deps, deleteReqs>>

\* ------------------------------------------------------- client actions
\* RepositoryInput.handleSubmit (IndexingStatus.js 179-194); the form is
\* rendered while ui.showRepositoryInput and its controls are disabled while
\* isLoading (App.js 236-242, IndexingStatus.js 222, 240).  A valid URL goes
\* to onIndex = handleIndexRepository, which runs up to its await
\* (App.js 44-52).
RepositoryInput_handleSubmit(url, maxSessions) ==
    /\ state.ui.showRepositoryInput
    /\ ~state.queries.isLoading
    /\ IF Trim(url) = <<>> \/ ~validateUrl(url)
       THEN UNCHANGED <<state, intervalRef, timers, indexReqs, panel, deps>>
       ELSE /\ BagCardinality(indexReqs) < maxSessions
            /\ Render(IndexStarted(state))
            /\ indexReqs' = indexReqs (+) One([repoUrl |-> url, resp |-> NoResp])
    /\ UNCHANGED <<statusReqs, queryReqs, server, created, submitted,
                   deleteReqs>>

\* handleIndexRepository after the await resolves (App.js 54-70)
handleIndexRepository_resolve(r) ==
    /\ r.resp # NoResp
    /\ Render(IndexSucceeded(state, r.resp, r.repoUrl))
    /\ indexReqs' = indexReqs (-) One(r)
    /\ server' = Keep(server, state', indexReqs', statusReqs, queryReqs)
    /\ UNCHANGED <<statusReqs, queryReqs, created, submitted, deleteReqs>>

\* handleIndexRepository's catch (App.js 71-79)
handleIndexRepository_reject(r, errorMessage) ==
    /\ Render(IndexFailed(state, errorMessage))
    /\ indexReqs' = indexReqs (-) One(r)
    /\ server' = Keep(server, state', indexReqs', statusReqs, queryReqs)
    /\ UNCHANGED <<statusReqs, queryReqs, created, submitted, deleteReqs>>

\* a variant without the guard on the session id
usePolling_tickUnguarded(t, maxInFlight) ==
    /\ BagCardinality(statusReqs) < maxInFlight
    /\ statusReqs' = statusReqs (+) One([sid |-> t.sid, resp |-> NoResp])
    /\ UNCHANGED <<state, intervalRef, timers, indexReqs, queryReqs, server,
                   created, submitted, panel, deps, deleteReqs>>

\* a live interval timer fires onPoll: checkStatus up to its await
\* (App.js 83-87), with the session id of the render that created it
usePolling_tick(t, maxInFlight) ==
    /\ IF t.sid = Null
       THEN UNCHANGED statusReqs
       ELSE /\ BagCardinality(statusReqs) < maxInFlight
            /\ statusReqs' = statusReqs (+) One([sid |-> t.sid, resp |-> NoResp])
    /\ UNCHANGED <<state, intervalRef, timers, indexReqs, queryReqs, server,
                   created, submitted, panel, deps, deleteReqs>>

\* checkStatus after the await resolves (App.js 89-106)
checkStatus_resolve(r) ==
    /\ r.resp # NoResp
    /\ Render(StatusReceived(state, r.resp))
    /\ statusReqs' = statusReqs (-) One(r)
    /\ UNCHANGED <<indexReqs, queryReqs, server, created,
                   submitted, deleteReqs>>

\* a variant that gives the session up when a poll fails
checkStatus_rejectGivingUp(r) ==
    /\ Render([state EXCEPT !.session.status = ERROR])
    /\ statusReqs' = statusReqs (-) One(r)
    /\ server' = Keep(server, state', indexReqs, statusReqs', queryReqs)
    /\ UNCHANGED <<indexReqs, queryReqs, created, submitted, deleteReqs>>

\* checkStatus's catch (App.js 107-109)
checkStatus_reject(r) ==
    /\ statusReqs' = statusReqs (-) One(r)
    /\ server' = Keep(server, state, indexReqs, statusReqs', queryReqs)
    /\ UNCHANGED <<state, intervalRef, timers, indexReqs, queryReqs, created, submitted,
                   panel, deps, deleteReqs>>

\* the questions the user types: a blank one, or the next new one
Blank == <<" ">>
Question(n) == <<"q", ToString(n)>>

\* QueryInterface.handleSubmit (IndexingStatus.js 290-296), rendered while
\* ui.showQueryInterface && session.id (App.js 255-263); onQuery =
\* handleQuery, which runs up to its await (App.js 120-130)
QueryInterface_handleSubmit(currentQuery, maxQueries) ==
    /\ state.ui.showQueryInterface
    /\ state.session.id # Null
    /\ IF Trim(currentQuery) # <<>> /\ ~state.queries.isLoading
       THEN /\ submitted < maxQueries
            /\ Render(QueryStarted(state))
            /\ queryReqs' = queryReqs (+) One([sid |-> state.session.id,
                                               question |-> currentQuery])
            /\ submitted' = submitted + 1
       ELSE UNCHANGED <<state, intervalRef, timers, queryReqs, submitted, panel, deps>>
    /\ UNCHANGED <<indexReqs, statusReqs, server, created, deleteReqs>>

\* POST /query answered by the Query Orchestrator (spec 4.6), which needs
\* the session ready; handleQuery after the await (App.js 132-148)
handleQuery_resolve(r) ==
    /\ server[r.sid].status = READY
    /\ LET newQuery == createQueryHistory(r.question, <<r.sid, r.question>>,
                                          <<>>, "high")
       IN  Render(QuerySucceeded(state, newQuery))
    /\ queryReqs' = queryReqs (-) One(r)
    /\ server' = Keep(server, state', indexReqs, statusReqs, queryReqs')
    /\ UNCHANGED <<indexReqs, statusReqs, created, submitted, deleteReqs>>

\* handleQuery's catch (App.js 149-157); NotReady comes from a session that
\* is not ready (spec 4.6)
handleQuery_reject(r, errorMessage) ==
    /\ errorMessage = "NotReady" => server[r.sid].status # READY
    /\ Render(QueryFailed(state, errorMessage))
    /\ queryReqs' = queryReqs (-) One(r)
    /\ server' = Keep(server, state', indexReqs, statusReqs, queryReqs')
    /\ UNCHANGED <<indexReqs, statusReqs, created, submitted, deleteReqs>>

\* a variant that carries the query history over
handleResetKeepingHistory ==
    /\ Render([createInitialState EXCEPT !.queries.history = state.queries.history])
    /\ server' = Keep(server, state', indexReqs, statusReqs, queryReqs)
    /\ UNCHANGED <<indexReqs, statusReqs, queryReqs, created,
                   submitted, deleteReqs>>

\* GitSleuthAPI.deleteSession (services/api.ts 71-74): DELETE /session/{id}
\* is sent.  No handler of App calls it.
deleteSession(sessionId) ==
    deleteReqs' = deleteReqs (+) One([sid |-> sessionId])

\* a variant that deletes the session it discards
handleResetDeleting ==
    /\ Render(createInitialState)
    /\ IF state.session.id # Null
       THEN deleteSession(state.session.id)
       ELSE UNCHANGED deleteReqs
    /\ server' = Keep(server, state', indexReqs, statusReqs, queryReqs)
    /\ UNCHANGED <<indexReqs, statusReqs, queryReqs, created, submitted>>

\* handleReset (App.js 161-165)
handleReset ==
    /\ Render(createInitialState)
    /\ server' = Keep(server, state', indexReqs, statusReqs, queryReqs)
    /\ UNCHANGED <<indexReqs, statusReqs, queryReqs, created,
                   submitted, deleteReqs>>

\* handleNewAnalysis (App.js 176-179)
handleNewAnalysis == handleReset

\* ---------------------------------------------------------- specification
Init ==
    /\ state = createInitialState
    /\ intervalRef = Null
    /\ timers = {}
    /\ indexReqs = EmptyBag
    /\ statusReqs = EmptyBag
    /\ queryReqs = EmptyBag
    /\ server = <<>>
    /\ created = 0
    /\ submitted = 0
    /\ panel = NoPanel
    /\ deps = [enabled |-> FALSE, interval |-> PollInterval, onPoll |-> Null]
    /\ deleteReqs = EmptyBag

\* w widens the bounds by w sessions, requests and questions
Next(w) ==
    \/ \E url \in RepoUrls : RepositoryInput_handleSubmit(url, MaxSessions + w)
    \/ \E r \in BagToSet(indexReqs) : handleIndexRepository_resolve(r)
    \/ \E r \in BagToSet(indexReqs), m \in IndexErrors : handleIndexRepository_reject(r, m)
    \/ \E t \in timers : usePolling_tick(t, MaxStatusInFlight + w)
    \/ \E r \in BagToSet(statusReqs) : checkStatus_resolve(r)
    \/ \E r \in BagToSet(statusReqs) : checkStatus_reject(r)
    \/ \E q \in {Blank, Question(submitted + 1)} :
          QueryInterface_handleSubmit(q, MaxQueries + w)
    \/ \E r \in BagToSet(queryReqs) : handleQuery_resolve(r)
    \/ \E r \in BagToSet(queryReqs), m \in QueryErrors : handleQuery_reject(r, m)
    \/ handleReset
    \/ handleNewAnalysis
    \/ \E r \in BagToSet(indexReqs) : ServerIndex(r, MaxSessions + w)
    \/ \E k \in DOMAIN server : ServerAdvance(k)
    \/ \E k \in DOMAIN server : ServerFail(k)
    \/ \E r \in BagToSet(statusReqs) : ServerStatus(r)

\* one session, one status request in flight, one question
Spec == Init /\ [][Next(0)]_vars

\* a second session, overlapping status requests, a second question
SpecWide == Init /\ [][Next(1)]_vars

\* as Spec, with a backend whose index response may already carry ready
NextIndexReady ==
    \/ Next(0)
    \/ \E r \in BagToSet(indexReqs) : ServerIndexReady(r, MaxSessions)

SpecIndexReady == Init /\ [][NextIndexReady]_vars

\* ---------------------------------- the progress bar, over its whole domain
\* the progress objects a status prop can carry: none, {}, objects with
\* fields missing (every field of StatusResponse.progress is optional), and
\* every count of processed files up to a total
ProgressProps ==
    {Undefined, EmptyObject, [step |-> "scanning_files"],
     [step |-> "processing_files", processed_files |-> 1]}
    \cup UNION {{Progress("processing_files", pf, tf, 0, 0) : pf \in 0..tf} :
                   tf \in 0..MaxTotalFiles}

StatusProps ==
    {[status |-> INDEXING, message |-> "Indexing in progress...", progress |-> p] :
        p \in ProgressProps}

\* IndexingStatus rendered with a status prop (IndexingStatus.js 21-29)
IndexingStatus_render(status) ==
    /\ panel' = IndexingStatus(status)
    /\ UNCHANGED <<state, intervalRef, timers, indexReqs, statusReqs, queryReqs,
                   server, created, submitted, deps, deleteReqs>>

NextProgressValue == \E status \in StatusProps : IndexingStatus_render(status)

SpecProgressValue == Init /\ [][NextProgressValue]_vars

\* ------------------------------------- usePolling, under any parent at all
\* the intervals and the onPoll callbacks a parent passes
Intervals == {1000 * n : n \in 1..MaxIntervals}
Callbacks == {Null} \cup {ToString(n) : n \in 1..MaxCallbacks}

\* the parent renders again with new props
usePolling_render(enabled, interval, onPoll) ==
    /\ deps # Unmounted
    /\ usePolling(enabled, interval, onPoll)
    /\ UNCHANGED <<state, indexReqs, statusReqs, queryReqs, server, created,
                   submitted, panel, deleteReqs>>

\* the parent unmounts: React runs the cleanup of the last effect
usePolling_unmount ==
    /\ deps # Unmounted
    /\ timers' = EffectCleanup(timers, intervalRef)
    /\ intervalRef' = Null
    /\ deps' = Unmounted
    /\ UNCHANGED <<state, indexReqs, statusReqs, queryReqs, server, created,
                   submitted, panel, deleteReqs>>

\* the parent mounts a new instance: useRef(null), then the effect's body
usePolling_mount(enabled, interval, onPoll) ==
    /\ deps = Unmounted
    /\ LET r == EffectBody(timers, Null, enabled, onPoll)
       IN  timers' = r[1] /\ intervalRef' = r[2]
    /\ deps' = [enabled |-> enabled, interval |-> interval, onPoll |-> onPoll]
    /\ UNCHANGED <<state, indexReqs, statusReqs, queryReqs, server, created,
                   submitted, panel, deleteReqs>>

NextUsePolling ==
    \/ \E e \in BOOLEAN, i \in Intervals, f \in Callbacks : usePolling_render(e, i, f)
    \/ usePolling_unmount
    \/ \E e \in BOOLEAN, i \in Intervals, f \in Callbacks : usePolling_mount(e, i, f)

SpecUsePolling == Init /\ [][NextUsePolling]_vars

\* ------------------------------------------------------------ properties
held == state.session.id
InFlight(bag) == BagCardinality(bag)

\* the progress records a pipeline run can report, from its first one on
RECURSIVE ReportsFrom(_)
ReportsFrom(ps) ==
    LET more == ps \cup UNION {Advance(p) : p \in ps}
    IN  IF more = ps THEN ps ELSE ReportsFrom(more)
Snapshots == ReportsFrom(Advance(Undefined))

\* the rank of the step a client-held progress shows; {} shows none
RankOf(progress) == IF progress = EmptyObject THEN 0 ELSE StepRank(progress.step)

\* C1: while the client holds one session id, state.session.status only
\* stays as it is or goes from indexing to ready or to error.
C1_StatusMonotone ==
    [][(held # Null /\ state'.session.id = held)
         => \/ state'.session.status = state.session.status
            \/ /\ state.session.status = INDEXING
               /\ state'.session.status \in {READY, ERROR}]_vars

\* C2: whenever ui.showQueryInterface is true the client holds a session id
\* and holds status ready.
C2_QueryOnlyWhenReady ==
    state.ui.showQueryInterface => (held # Null /\ state.session.status = READY)

\* C3: every record of the history answers a query sent for the session the
\* client holds, and the history is empty while it holds none.
C3_HistoryOfHeldSession ==
    /\ held = Null => state.queries.history = <<>>
    /\ \A n \in 1..Len(state.queries.history) :
          state.queries.history[n].answer[1] = held

\* C4: a status response for a session other than the held one changes
\* neither the status, nor the progress, nor ui.showQueryInterface.
C4_ForeignStatusIgnored ==
    [][\A r \in BagToSet(statusReqs) :
          (r.sid # held /\ checkStatus_resolve(r))
            => /\ state'.session.status = state.session.status
               /\ state'.session.progress = state.session.progress
               /\ state'.ui.showQueryInterface = state.ui.showQueryInterface]_vars

\* C5: while the client holds one session id, the step of the progress it
\* holds never moves backwards.
C5_StepNeverRegresses ==
    [][(held # Null /\ state'.session.id = held)
         => RankOf(state'.session.progress) >= RankOf(state.session.progress)]_vars

\* C6: the progress the client holds is {} or, field for field, one record
\* the pipeline reports; so processed never exceeds total in it.
C6_ProgressIsOneSnapshot ==
    \/ state.session.progress = EmptyObject
    \/ /\ state.session.progress \in Snapshots
       /\ state.session.progress.processed_files <= state.session.progress.total_files
       /\ state.session.progress.processed_chunks <= state.session.progress.total_chunks

\* a status response has put a record with a processed file into the state
C6_Witness ==
    /\ state.session.progress # EmptyObject
    /\ state.session.progress.processed_files > 0

\* C7: when the poll loop of the held session has come to rest (no timer,
\* no status request in flight) and the backend's session is ready or in
\* error, the client holds that status and, when ready, shows the query
\* interface.  From such a state no poll starts again, so this is what
\* "eventually holds ready (error), timer stopped from then on" comes to.
PollLoopAtRest ==
    /\ held # Null
    /\ timers = {}
    /\ statusReqs = EmptyBag
    /\ server[held].status \in {READY, ERROR}
C7_PollLoopSettles ==
    PollLoopAtRest
      => /\ state.session.status = server[held].status
         /\ state.session.status = READY => state.ui.showQueryInterface

QuestionNo(q) == CHOOSE n \in 1..submitted : Question(n) = q

\* C9: at most one query request is outstanding, and the history lists the
\* questions in the order of submission, newest first.
C9_QueriesSerialized ==
    /\ InFlight(queryReqs) <= 1
    /\ \A m, n \in 1..Len(state.queries.history) :
          m < n => QuestionNo(state.queries.history[m].question)
                     > QuestionNo(state.queries.history[n].question)

\* C10: at most one index request is outstanding, and none is outstanding
\* while the client holds a session.
C10_OneIndexRequest ==
    /\ InFlight(indexReqs) <= 1
    /\ held # Null => indexReqs = EmptyBag

\* C11: a failed query request leaves state.session and the history as they
\* are, sets queries.isLoading to false and stores the failure message in
\* ui.error.
C11_FailedQueryRecordsNothing ==
    [][\A r \in BagToSet(queryReqs), m \in QueryErrors :
          handleQuery_reject(r, m)
            => /\ state'.session = state.session
               /\ state'.queries.history = state.queries.history
               /\ state'.queries.isLoading = FALSE
               /\ state'.ui.error = m]_vars

\* a query request has failed; its message is shown and nothing was recorded
C11_Witness ==
    /\ state.ui.error \in QueryErrors
    /\ submitted >= 1
    /\ queryReqs = EmptyBag
    /\ state.queries.history = <<>>

\* the URLs of the input set that are empty, blank or not of the form
\* https://github.com/<owner>/<repo>
Malformed == RepoUrls \ {GoodUrl}

\* C12: submitting a malformed repository URL, or a blank question, sends
\* no request and changes nothing: no step that changes the state is such
\* a submission.
C12_MalformedInputRejected ==
    [][\A w \in 0..1 :
          /\ \A url \in Malformed :
                RepositoryInput_handleSubmit(url, MaxSessions + w) => UNCHANGED vars
          /\ QueryInterface_handleSubmit(Blank, MaxQueries + w) => UNCHANGED vars]_vars

\* a form is enabled again after a failed request, with the message on
\* display: a submission that got through would clear it
C12_Witness ==
    /\ ~state.queries.isLoading
    /\ state.ui.error # Null
    /\ \/ state.ui.showRepositoryInput
       \/ state.ui.showQueryInterface /\ held # Null

\* C13: a poll timer exists exactly while the client holds status indexing,
\* and a step that starts a status request is taken in that status only.
C13_PollingIffIndexing ==
    /\ [](timers # {} <=> state.session.status = INDEXING)
    /\ [][InFlight(statusReqs') > InFlight(statusReqs)
            => state.session.status = INDEXING]_vars

\* the timer of an indexing session has started a status request
C13_Witness ==
    /\ state.session.status = INDEXING
    /\ timers # {}
    /\ \E r \in BagToSet(statusReqs) : r.sid = held

\* C14: whenever the client holds a session id with status ready,
\* ui.showQueryInterface is true.
C14_ReadyIsQueryable ==
    (held # Null /\ state.session.status = READY) => state.ui.showQueryInterface

\* C15: whenever the client holds status error for its session, the
\* IndexingStatus panel is rendered, in its failed form.
C15_ErrorPanelShown ==
    (held # Null /\ state.session.status = ERROR)
      => (IndexingStatus_rendered /\ isError(IndexingStatus_props))

\* C16: a failed index request leaves state.session, the history,
\* showRepositoryInput and showQueryInterface as they are, stores the failure
\* message in ui.error, sets queries.isLoading to false and starts no timer.
C16_FailedIndexCreatesNothing ==
    [][\A r \in BagToSet(indexReqs), m \in IndexErrors :
          handleIndexRepository_reject(r, m)
            => /\ state'.session = state.session
               /\ state'.queries.history = state.queries.history
               /\ state'.ui.showRepositoryInput = state.ui.showRepositoryInput
               /\ state'.ui.showQueryInterface = state.ui.showQueryInterface
               /\ state'.ui.error = m
               /\ state'.queries.isLoading = FALSE
               /\ timers' = timers]_vars

\* an index request has failed: the message is shown, no session is held
C16_Witness ==
    /\ state.ui.error \in IndexErrors
    /\ held = Null
    /\ state.session.status = IDLE
    /\ state.ui.showRepositoryInput
    /\ ~state.queries.isLoading
    /\ indexReqs = EmptyBag
    /\ timers = {}

\* C17: Reset and New Analysis leave the App state with session id null,
\* status idle, repoUrl and progress empty, no history, isLoading false,
\* error null, the repository input shown and the query interface hidden.
C17_ResetRestoresInitialState ==
    [][(handleReset \/ handleNewAnalysis)
         => /\ state'.session.id = Null
            /\ state'.session.status = IDLE
            /\ state'.session.repoUrl = <<>>
            /\ state'.session.progress = EmptyObject
            /\ state'.queries.history = <<>>
            /\ state'.queries.currentQuery = <<>>
            /\ state'.queries.isLoading = FALSE
            /\ state'.ui.error = Null
            /\ state'.ui.showRepositoryInput
            /\ ~state'.ui.showQueryInterface]_vars

\* the state after a Reset that discarded a session with a question asked
C17_Witness ==
    /\ state = createInitialState
    /\ created >= 1
    /\ submitted >= 1

\* C18: the value of the progress bar is an integer in 0..100; it is 0 when
\* the progress is absent or total_files is missing or 0; otherwise it is an
\* integer nearest to processed_files * 100 / total_files, and no smaller
\* count of processed files with the same total gives a larger value.
C18_ProgressValue ==
    panel # NoPanel =>
      LET progress == panel.status.progress
          value == panel.value
          counted == /\ progress # Undefined
                     /\ "total_files" \in DOMAIN progress
                     /\ progress.total_files # 0
      IN  /\ value \in 0..100
          /\ ~counted => value = 0
          /\ counted =>
               LET pf == progress.processed_files
                   tf == progress.total_files
                   off == 100 * pf - value * tf
               IN  /\ 2 * (IF off < 0 THEN -off ELSE off) <= tf
                   /\ \A less \in 0..pf :
                         getProgressValue([panel.status EXCEPT
                             !.progress.processed_files = less]) <= value

\* the bar of 2 files out of 3, whose exact percentage 66.67 is rounded up
C18_Witness ==
    /\ panel # NoPanel
    /\ panel.status.progress = Progress("processing_files", 2, 3, 0, 0)
    /\ panel.value = 67

\* C19: a failed status request leaves state.session, state.queries and
\* state.ui as they are and the timer alive: if the client holds status
\* indexing, a timer is still there to send the next poll.
C19_FailedPollChangesNothing ==
    [][\A r \in BagToSet(statusReqs) :
          checkStatus_reject(r)
            => /\ state' = state
               /\ timers' = timers
               /\ intervalRef' = intervalRef
               /\ state.session.status = INDEXING => timers' # {}]_vars

\* a poll of the indexing session is in flight with the news that the
\* session is ready: if it fails, only the next poll can bring them
C19_Witness ==
    /\ held # Null
    /\ state.session.status = INDEXING
    /\ timers # {}
    /\ \E r \in BagToSet(statusReqs) :
          r.sid = held /\ r.resp # NoResp /\ r.resp.status = READY

\* C20: at most one interval timer is alive; a live timer is the one
\* intervalRef holds, it calls the onPoll passed last, and it exists only
\* while the hook is mounted with enabled true.
C20_OneTimerPerHook ==
    /\ Cardinality(timers) <= 1
    /\ \A t \in timers :
          /\ deps # Unmounted
          /\ deps.enabled
          /\ t.handle = intervalRef
          /\ t.sid = deps.onPoll

\* enabled, with an interval and an onPoll other than the first ones: the
\* effect has run again over a live timer
C20_Witness ==
    /\ deps # Unmounted
    /\ deps.enabled
    /\ deps.interval # PollInterval
    /\ deps.onPoll = "2"
    /\ timers # {}

\* the requests a step puts in flight
SentStatus == {r \in BagToSet(statusReqs') :
                  r.resp = NoResp /\ CopiesIn(r, statusReqs') > CopiesIn(r, statusReqs)}
SentQuery == {r \in BagToSet(queryReqs') :
                 CopiesIn(r, queryReqs') > CopiesIn(r, queryReqs)}

\* C21: every status request and every query request is sent with the
\* session id the client holds at that moment, which is not null.
C21_RequestsCarryHeldId ==
    [][\A r \in SentStatus \cup SentQuery : r.sid # Null /\ r.sid = held]_vars

\* a timer whose checkStatus closure holds no session id is alive, and no
\* request is in flight: its ticks return without sending
C21_Witness ==
    /\ held = Null
    /\ \E t \in timers : t.sid = Null
    /\ statusReqs = EmptyBag
    /\ queryReqs = EmptyBag

\* C22: queries.isLoading is true exactly while an index request or a query
\* request is in flight.
C22_LoadingIffOutstanding ==
    state.queries.isLoading <=> (indexReqs # EmptyBag \/ queryReqs # EmptyBag)

\* C23: no DELETE request is ever sent, and a step in which the client lets
\* go of a session (Reset, New Analysis, an index response that replaces
\* the held id) leaves every session of the backend as it is.
C23_NoDeleteSent ==
    /\ [](deleteReqs = EmptyBag)
    /\ [][(\/ handleReset
           \/ handleNewAnalysis
           \/ \E r \in BagToSet(indexReqs) : handleIndexRepository_resolve(r))
            => \A k \in DOMAIN server \cap DOMAIN server' : server'[k] = server[k]]_vars

\* after a Reset the client holds no session, while the run of the session
\* it discarded is still going on the backend
C23_Witness ==
    /\ held = Null
    /\ created >= 1
    /\ \E k \in DOMAIN server :
          server[k].status = INDEXING /\ server[k].progress # Undefined
====
